---- MODULE Spec2Model ----
(***************************************************************************)
(* A model of the MP4 / ISOBMFF box dissector of                           *)
(* epan/dissectors/packet-mp4.c: the top-level entry dissect_mp4, the      *)
(* recursive box walker dissect_mp4_box and the three leaf body decoders.  *)
(*                                                                         *)
(* The buffer (tvb) is a sequence of bytes.  32-bit quantities (guint,     *)
(* guint32, gint) are kept at their width: a 32-bit word is the pair       *)
(* <<hi, lo>> of its two 16-bit halves, and arithmetic on it is modulo     *)
(* 2^32.  The recursion of dissect_mp4_box is an explicit stack of frames. *)
(***************************************************************************)
EXTENDS Integers, Sequences, FiniteSets, TLC

(***************************************************************************)
(* Bounds of the model: the buffers are built from at most MaxBoxes 8-byte *)
(* box headers of the palette below, with up to MaxCut bytes cut off the   *)
(* end.                                                                    *)
(***************************************************************************)
MaxBoxes == 3
MaxCut == 1

(***************************************************************************)
(* 32-bit words.                                                           *)
(***************************************************************************)
W16 == 65536

U32(n) == <<n \div W16, n % W16>>

Add32(a, b) ==
    LET lo == a[2] + b[2]
        hi == a[1] + b[1] + (lo \div W16)
    IN  <<hi % W16, lo % W16>>

Sub32(a, b) ==
    LET lo == a[2] - b[2] + W16
        hi == a[1] - b[1] + (W16 - 1) + (lo \div W16)
    IN  <<hi % W16, lo % W16>>

Lt32(a, b) == a[1] < b[1] \/ (a[1] = b[1] /\ a[2] < b[2])

\* a test of the result for 0 only
GintLeqZero_zero_only(r) == r = <<0, 0>>

\* the value of a word as a gint is <= 0: the sign bit is set, or it is 0
GintLeqZero(r) == r[1] >= 32768 \/ r = <<0, 0>>

\* (gint)-1
MinusOne == <<W16 - 1, W16 - 1>>

\* #define MIN_BOX_LEN 8
MIN_BOX_LEN == 8

(***************************************************************************)
(* Box types.  MAKE_TYPE_VAL(a, b, c, d) is (a)<<24 | (b)<<16 | (c)<<8 |   *)
(* (d) on four character codes.                                            *)
(***************************************************************************)
MAKE_TYPE_VAL(a, b, c, d) == <<a * 256 + b, c * 256 + d>>

BOX_TYPE_NONE == <<0, 0>>
BOX_TYPE_FTYP == MAKE_TYPE_VAL(102, 116, 121, 112)
BOX_TYPE_MFHD == MAKE_TYPE_VAL(109, 102, 104, 100)
BOX_TYPE_MVHD == MAKE_TYPE_VAL(109, 118, 104, 100)
BOX_TYPE_MOOV == MAKE_TYPE_VAL(109, 111, 111, 118)
BOX_TYPE_MOOF == MAKE_TYPE_VAL(109, 111, 111, 102)
BOX_TYPE_STBL == MAKE_TYPE_VAL(115, 116, 98, 108)
BOX_TYPE_MDIA == MAKE_TYPE_VAL(109, 100, 105, 97)
BOX_TYPE_TRAK == MAKE_TYPE_VAL(116, 114, 97, 107)
BOX_TYPE_TRAF == MAKE_TYPE_VAL(116, 114, 97, 102)
BOX_TYPE_MINF == MAKE_TYPE_VAL(109, 105, 110, 102)
BOX_TYPE_MVEX == MAKE_TYPE_VAL(109, 118, 101, 120)
BOX_TYPE_MEHD == MAKE_TYPE_VAL(109, 101, 104, 100)
BOX_TYPE_TREX == MAKE_TYPE_VAL(116, 114, 101, 120)

\* the value_string table, without its { 0, NULL } terminator
box_types ==
    << BOX_TYPE_FTYP, BOX_TYPE_MFHD, BOX_TYPE_MVHD, BOX_TYPE_MOOV,
       BOX_TYPE_MOOF, BOX_TYPE_STBL, BOX_TYPE_MDIA, BOX_TYPE_TRAK,
       BOX_TYPE_TRAF, BOX_TYPE_MINF, BOX_TYPE_MVEX, BOX_TYPE_MEHD,
       BOX_TYPE_TREX >>

\* try_val_to_str(val, box_types) != NULL: a linear search up to the terminator
try_val_to_str(val) == \E i \in 1..Len(box_types) : box_types[i] = val

\* the case labels of the switch in dissect_mp4_box that walk the payload
ContainerTypes ==
    { BOX_TYPE_MOOV, BOX_TYPE_MOOF, BOX_TYPE_STBL, BOX_TYPE_MDIA,
      BOX_TYPE_TRAK, BOX_TYPE_TRAF, BOX_TYPE_MINF, BOX_TYPE_MVEX }

(***************************************************************************)
(* The input buffers.                                                      *)
(***************************************************************************)
\* a 32-bit word as the four bytes of its network byte order
Bytes32(w) == <<w[1] \div 256, w[1] % 256, w[2] \div 256, w[2] % 256>>

\* a declared size with the top bit set: 0x80000008
BigSize == <<32768, 8>>

\* the four bytes 'f' 'r' 'e' 'e', a type that is not in box_types
TypeFree == MAKE_TYPE_VAL(102, 114, 101, 101)

\* the 8-byte headers <<size, type>> the buffers are made of
Palette ==
    { <<U32(16), BOX_TYPE_FTYP>>, <<U32(18), BOX_TYPE_FTYP>>,
      <<U32(8), BOX_TYPE_MVHD>>,  <<U32(8), BOX_TYPE_MFHD>>,
      <<U32(12), BOX_TYPE_MOOV>>, <<U32(16), BOX_TYPE_TRAK>>,
      <<U32(5), TypeFree>>,       <<U32(8), TypeFree>>,
      <<BigSize, BOX_TYPE_MEHD>> }

RECURSIVE Flatten(_)
Flatten(hs) ==
    IF hs = <<>> THEN <<>>
    ELSE Bytes32(Head(hs)[1]) \o Bytes32(Head(hs)[2]) \o Flatten(Tail(hs))

\* one 8-byte box of every type of the table, of the terminator's value 0
\* and of an unknown type, and a known first box that declares the size 5:
\* the buffers of one header
SingleBoxes ==
    { <<U32(8), box_types[i]>> : i \in 1..Len(box_types) }
       \cup { <<U32(8), BOX_TYPE_NONE>>, <<U32(8), TypeFree>>,
               <<U32(5), BOX_TYPE_FTYP>> }

HeaderSeqs ==
    UNION { [1..n -> Palette] : n \in 0..MaxBoxes }
       \cup { <<h>> : h \in SingleBoxes }

Buffers ==
    { SubSeq(Flatten(hs), 1, 8 * Len(hs) - c) :
         <<hs, c>> \in { p \in HeaderSeqs \X (0..MaxCut) : p[2] <= 8 * Len(p[1]) } }

(***************************************************************************)
(* State.                                                                  *)
(*   tvb     the buffer handed to dissect_mp4                              *)
(*   pc      the position of the one thread of control                     *)
(*   offset  the local `offset' of dissect_mp4                             *)
(*   ret     the value the last call of dissect_mp4_box returned (gint)    *)
(*   result  the value dissect_mp4 returned                                *)
(*   stack   the active invocations of dissect_mp4_box, outermost first    *)
(*   leaf    the locals of the active leaf body decoder, and its result    *)
(*   reads   the accesses to the bytes of tvb that were performed          *)
(*   fault   the access that raised the bounds exception, if one did       *)
(*   tree    the items added to the protocol tree, in the order added      *)
(*   col     the text of the protocol column                               *)
(***************************************************************************)
VARIABLES tvb, pc, offset, ret, result, stack, leaf, reads, fault, tree, col

vars == <<tvb, pc, offset, ret, result, stack, leaf, reads, fault, tree, col>>

NoLeaf == [fn |-> "none", offset_start |-> <<0, 0>>, offset |-> <<0, 0>>,
           len |-> <<0, 0>>, ret |-> <<0, 0>>]

NoFault == [at |-> <<0, 0>>, n |-> 0]

(***************************************************************************)
(* The tvbuff accessors.  An access to bytes that are not all inside the   *)
(* buffer does not return: it raises the bounds exception, which nothing   *)
(* in packet-mp4.c catches.                                                *)
(***************************************************************************)
tvb_reported_length == Len(tvb)

\* a bounds check that looks at the first byte of the access only
tvb_bytes_exist_first_byte(off, n) == off[1] = 0 /\ off[2] < Len(tvb)

\* the n bytes at off lie inside the buffer
tvb_bytes_exist(off, n) == off[1] = 0 /\ off[2] + n <= Len(tvb)

\* the number of bytes from off to the end of the buffer; -1 beyond the end
tvb_reported_length_remaining(off) ==
    IF off[1] = 0 /\ off[2] <= Len(tvb) THEN Len(tvb) - off[2] ELSE -1

\* the byte at index i; the accessors fetch it only for i inside the buffer,
\* and 0 stands for what lies outside
tvb_get_guint8(i) == IF i < Len(tvb) THEN tvb[i + 1] ELSE 0

\* the big-endian 32-bit word at off
tvb_get_ntohl(off) ==
    <<tvb_get_guint8(off[2]) * 256 + tvb_get_guint8(off[2] + 1),
      tvb_get_guint8(off[2] + 2) * 256 + tvb_get_guint8(off[2] + 3)>>

\* the n bytes at off
tvb_bytes(off, n) == [i \in 1..n |-> tvb_get_guint8(off[2] + i - 1)]

\* the record of one performed access
Rd(off, n, by) == [at |-> off[2], n |-> n, by |-> by]

\* proto_tree_add_item: the field read from the buffer and added under `parent'
Item(hf, off, n, parent) ==
    [kind |-> "item", hf |-> hf, start |-> off, length |-> U32(n),
     val |-> tvb_bytes(off, n), parent |-> parent]

\* the stack unwinds to the caller of dissect_mp4
Throw(off, n) ==
    /\ pc' = "exception"
    /\ fault' = [at |-> off, n |-> n]
    /\ stack' = <<>>
    /\ leaf' = NoLeaf

Init ==
    /\ tvb \in Buffers
    /\ pc = "dissect_mp4"
    /\ offset = <<0, 0>>
    /\ ret = <<0, 0>>
    /\ result = <<0, 0>>
    /\ stack = <<>>
    /\ leaf = NoLeaf
    /\ reads = <<>>
    /\ fault = NoFault
    /\ tree = <<>>
    /\ col = ""

(***************************************************************************)
(* dissect_mp4                                                             *)
(***************************************************************************)
\* a length test that also declines a buffer of exactly one header
SniffTooShort_leq == tvb_reported_length <= MIN_BOX_LEN

\* line 237: tvb_reported_length(tvb)<MIN_BOX_LEN
SniffTooShort == tvb_reported_length < MIN_BOX_LEN

\* lines 237-248: the checks, the protocol column and the protocol item
Sniff ==
    /\ pc = "dissect_mp4"
    /\ IF SniffTooShort
       THEN /\ result' = <<0, 0>>
            /\ pc' = "done"
            /\ UNCHANGED <<reads, col, tree, stack, leaf, fault>>
       ELSE IF ~ tvb_bytes_exist(U32(4), 4)
       THEN /\ Throw(U32(4), 4)
            /\ UNCHANGED <<result, reads, col, tree>>
       ELSE /\ reads' = Append(reads, Rd(U32(4), 4, "sniff"))
            /\ IF try_val_to_str(tvb_get_ntohl(U32(4)))
               THEN /\ col' = "MP4"
                    /\ tree' = Append(tree,
                          [kind |-> "protocol", start |-> <<0, 0>>,
                           length |-> U32(tvb_reported_length), parent |-> 0])
                    /\ pc' = "top_loop"
                    /\ UNCHANGED result
               ELSE /\ result' = <<0, 0>>
                    /\ pc' = "done"
                    /\ UNCHANGED <<col, tree>>
            /\ UNCHANGED <<stack, leaf, fault>>
    /\ UNCHANGED <<tvb, offset, ret>>

\* an invocation for a child that is handed the start of the calling box
\* (offset_start) where the code hands over the cursor
Frame_from_box_start(parent_box_type, off, parent) ==
    [parent_box_type |-> parent_box_type, tree |-> parent,
     offset_start |-> IF stack = <<>> THEN off
                      ELSE stack[Len(stack)].offset_start,
     offset |-> IF stack = <<>> THEN off ELSE stack[Len(stack)].offset_start,
     box_len |-> <<0, 0>>, box_type |-> BOX_TYPE_NONE, box_tree |-> 0]

\* a new invocation dissect_mp4_box(parent_box_type, tvb, off, pinfo, parent)
Frame(parent_box_type, off, parent) ==
    [parent_box_type |-> parent_box_type, tree |-> parent,
     offset_start |-> off, offset |-> off,
     box_len |-> <<0, 0>>, box_type |-> BOX_TYPE_NONE, box_tree |-> 0]

\* the loop test of the top-level loop
TopLoopCond(off) == tvb_reported_length_remaining(off) > 0

\* lines 250-251 and 257: the loop test, then the call or the return
TopLoop ==
    /\ pc = "top_loop"
    /\ IF TopLoopCond(offset)
       THEN /\ stack' = <<Frame(BOX_TYPE_NONE, offset, 1)>>
            /\ pc' = "box_entry"
            /\ UNCHANGED result
       ELSE /\ result' = offset
            /\ pc' = "done"
            /\ UNCHANGED stack
    /\ UNCHANGED <<tvb, offset, ret, leaf, reads, fault, tree, col>>

\* the cursor of a loop that does not move past the box it has processed
Advance_stays(off, r) == off

\* lines 212 and 254: offset += ret
Advance(off, r) == Add32(off, r)

\* lines 252-254 and 257: the result of the call
TopRet ==
    /\ pc = "top_ret"
    /\ IF GintLeqZero(ret)
       THEN /\ result' = offset
            /\ pc' = "done"
            /\ UNCHANGED offset
       ELSE /\ offset' = Advance(offset, ret)
            /\ pc' = "top_loop"
            /\ UNCHANGED result
    /\ UNCHANGED <<tvb, ret, stack, leaf, reads, fault, tree, col>>

(***************************************************************************)
(* dissect_mp4_box                                                         *)
(***************************************************************************)
Top == stack[Len(stack)]

SetTop(f) == [stack EXCEPT ![Len(stack)] = f]

Pop == SubSeq(stack, 1, Len(stack) - 1)

\* where an invocation returns to: the top-level loop or the container loop
ReturnPc == IF Len(stack) = 1 THEN "top_ret" ELSE "child_ret"

\* a size check that rejects the size 0 only
BoxTooSmall_zero_only(box_len) == box_len = <<0, 0>>

\* line 172: box_len<MIN_BOX_LEN
BoxTooSmall(box_len) == Lt32(box_len, U32(MIN_BOX_LEN))

\* lines 164-187: the size, the check of the size, the type, the box's items
BoxHeader ==
    /\ pc = "box_entry"
    /\ LET f == Top
           o == f.offset
           o4 == Add32(o, U32(4))
       IN  IF ~ tvb_bytes_exist(o, 4)
           THEN /\ Throw(o, 4)
                /\ UNCHANGED <<ret, reads, tree>>
           ELSE IF BoxTooSmall(tvb_get_ntohl(o))
           THEN /\ reads' = Append(reads, Rd(o, 4, "box_len"))
                /\ ret' = MinusOne
                /\ stack' = Pop
                /\ pc' = ReturnPc
                /\ UNCHANGED <<leaf, fault, tree>>
           ELSE IF ~ tvb_bytes_exist(o4, 4)
           THEN /\ reads' = Append(reads, Rd(o, 4, "box_len"))
                /\ Throw(o4, 4)
                /\ UNCHANGED <<ret, tree>>
           ELSE /\ reads' = reads \o
                      << Rd(o, 4, "box_len"), Rd(o4, 4, "box_type"),
                         Rd(o4, 4, "box_type_str"),
                         Rd(o, 4, "hf_mp4_box_size"),
                         Rd(o4, 4, "hf_mp4_box_type_str") >>
                /\ tree' = tree \o
                      << [kind |-> "text", start |-> o,
                          length |-> tvb_get_ntohl(o),
                          type |-> tvb_get_ntohl(o4), parent |-> f.tree],
                         Item("hf_mp4_box_size", o, 4, Len(tree) + 1),
                         Item("hf_mp4_box_type_str", o4, 4, Len(tree) + 1) >>
                /\ stack' = SetTop([f EXCEPT !.box_len = tvb_get_ntohl(o),
                                            !.box_type = tvb_get_ntohl(o4),
                                            !.box_tree = Len(tree) + 1,
                                            !.offset = Add32(o, U32(8))])
                /\ pc' = "switch"
                /\ UNCHANGED <<ret, leaf, fault>>
    /\ UNCHANGED <<tvb, offset, result, col>>

\* the call of a leaf body decoder: (tvb, offset, box_len-8, pinfo, box_tree)
LeafCall(fn, f) ==
    [fn |-> fn, offset_start |-> f.offset, offset |-> f.offset,
     len |-> Sub32(f.box_len, U32(8)), ret |-> <<0, 0>>]

\* lines 190-217: the switch on the box type
Switch ==
    /\ pc = "switch"
    /\ LET f == Top
       IN  CASE f.box_type = BOX_TYPE_FTYP ->
                   leaf' = LeafCall("ftyp", f) /\ pc' = "ftyp_body"
             [] f.box_type = BOX_TYPE_MVHD ->
                   leaf' = LeafCall("mvhd", f) /\ pc' = "mvhd_body"
             [] f.box_type = BOX_TYPE_MFHD ->
                   leaf' = LeafCall("mfhd", f) /\ pc' = "mfhd_body"
             [] f.box_type \in ContainerTypes ->
                   leaf' = leaf /\ pc' = "box_loop"
             [] OTHER ->
                   leaf' = leaf /\ pc' = "box_return"
    /\ UNCHANGED <<tvb, offset, ret, result, stack, reads, fault, tree, col>>

\* a loop test that admits the cursor at the end of the box
ContainerLoopCond_leq(f) == ~ Lt32(f.box_len, Sub32(f.offset, f.offset_start))

\* line 208: offset-offset_start<box_len
ContainerLoopCond(f) == Lt32(Sub32(f.offset, f.offset_start), f.box_len)

\* lines 208-209: the loop test of a container, then the call for a child
BoxLoop ==
    /\ pc = "box_loop"
    /\ IF ContainerLoopCond(Top)
       THEN /\ stack' = Append(stack, Frame(Top.box_type, Top.offset, Top.box_tree))
            /\ pc' = "box_entry"
       ELSE /\ pc' = "box_return"
            /\ UNCHANGED stack
    /\ UNCHANGED <<tvb, offset, ret, result, leaf, reads, fault, tree, col>>

\* lines 210-212: the result of the call for a child
ChildRet ==
    /\ pc = "child_ret"
    /\ IF GintLeqZero(ret)
       THEN /\ pc' = "box_return"
            /\ UNCHANGED stack
       ELSE /\ stack' = SetTop([Top EXCEPT !.offset = Advance(Top.offset, ret)])
            /\ pc' = "box_loop"
    /\ UNCHANGED <<tvb, offset, ret, result, leaf, reads, fault, tree, col>>

\* a return of the bytes the walk consumed, offset-offset_start
ReturnValue_consumed(f) == Sub32(f.offset, f.offset_start)

\* line 219: return box_len, a guint returned as a gint with the same bits
ReturnValue(f) == f.box_len

\* line 219: the return of dissect_mp4_box after the switch
BoxReturn ==
    /\ pc = "box_return"
    /\ ret' = ReturnValue(Top)
    /\ stack' = Pop
    /\ pc' = ReturnPc
    /\ leaf' = NoLeaf
    /\ UNCHANGED <<tvb, offset, result, reads, fault, tree, col>>

(***************************************************************************)
(* The leaf body decoders.  Each returns offset-offset_start to the switch *)
(* in dissect_mp4_box, which ignores it and breaks to the return.          *)
(***************************************************************************)
\* dissect_mp4_mvhd_body: the version byte, then three bytes skipped
MvhdBody ==
    /\ pc = "mvhd_body"
    /\ LET o == leaf.offset
       IN  IF ~ tvb_bytes_exist(o, 1)
           THEN /\ Throw(o, 1)
                /\ UNCHANGED <<reads, tree>>
           ELSE /\ reads' = Append(reads, Rd(o, 1, "hf_mp4_full_box_ver"))
                /\ tree' = Append(tree, Item("hf_mp4_full_box_ver", o, 1, Top.box_tree))
                /\ leaf' = [leaf EXCEPT !.offset = Add32(o, U32(4)),
                                        !.ret = Sub32(Add32(o, U32(4)), leaf.offset_start)]
                /\ pc' = "box_return"
                /\ UNCHANGED <<stack, fault>>
    /\ UNCHANGED <<tvb, offset, ret, result, col>>

\* dissect_mp4_mfhd_body: the version byte, three bytes skipped, the sequence number
MfhdBody ==
    /\ pc = "mfhd_body"
    /\ LET o == leaf.offset
           o4 == Add32(o, U32(4))
           o8 == Add32(o, U32(8))
       IN  IF ~ tvb_bytes_exist(o, 1)
           THEN /\ Throw(o, 1)
                /\ UNCHANGED <<reads, tree>>
           ELSE IF ~ tvb_bytes_exist(o4, 4)
           THEN /\ reads' = Append(reads, Rd(o, 1, "hf_mp4_full_box_ver"))
                /\ tree' = Append(tree, Item("hf_mp4_full_box_ver", o, 1, Top.box_tree))
                /\ Throw(o4, 4)
           ELSE /\ reads' = reads \o << Rd(o, 1, "hf_mp4_full_box_ver"),
                                        Rd(o4, 4, "hf_mp4_mfhd_seq_num") >>
                /\ tree' = tree \o
                      << Item("hf_mp4_full_box_ver", o, 1, Top.box_tree),
                         Item("hf_mp4_mfhd_seq_num", o4, 4, Top.box_tree) >>
                /\ leaf' = [leaf EXCEPT !.offset = o8,
                                        !.ret = Sub32(o8, leaf.offset_start)]
                /\ pc' = "box_return"
                /\ UNCHANGED <<stack, fault>>
    /\ UNCHANGED <<tvb, offset, ret, result, col>>

\* dissect_mp4_ftyp_body, lines 134-140: the major brand and the version
FtypFixed ==
    /\ pc = "ftyp_body"
    /\ LET o == leaf.offset
           o4 == Add32(o, U32(4))
           o8 == Add32(o, U32(8))
       IN  IF ~ tvb_bytes_exist(o, 4)
           THEN /\ Throw(o, 4)
                /\ UNCHANGED <<reads, tree>>
           ELSE IF ~ tvb_bytes_exist(o4, 4)
           THEN /\ reads' = Append(reads, Rd(o, 4, "hf_mp4_ftyp_brand"))
                /\ tree' = Append(tree, Item("hf_mp4_ftyp_brand", o, 4, Top.box_tree))
                /\ Throw(o4, 4)
           ELSE /\ reads' = reads \o << Rd(o, 4, "hf_mp4_ftyp_brand"),
                                        Rd(o4, 4, "hf_mp4_ftyp_ver") >>
                /\ tree' = tree \o
                      << Item("hf_mp4_ftyp_brand", o, 4, Top.box_tree),
                         Item("hf_mp4_ftyp_ver", o4, 4, Top.box_tree) >>
                /\ leaf' = [leaf EXCEPT !.offset = o8]
                /\ pc' = "ftyp_loop"
                /\ UNCHANGED <<stack, fault>>
    /\ UNCHANGED <<tvb, offset, ret, result, col>>

\* line 142: offset-offset_start<len
FtypLoopCond(l) == Lt32(Sub32(l.offset, l.offset_start), l.len)

\* dissect_mp4_ftyp_body, lines 142-148: one additional brand, or the return
FtypLoop ==
    /\ pc = "ftyp_loop"
    /\ LET o == leaf.offset
       IN  IF FtypLoopCond(leaf)
           THEN IF ~ tvb_bytes_exist(o, 4)
                THEN /\ Throw(o, 4)
                     /\ UNCHANGED <<reads, tree>>
                ELSE /\ reads' = Append(reads, Rd(o, 4, "hf_mp4_ftyp_add_brand"))
                     /\ tree' = Append(tree,
                           Item("hf_mp4_ftyp_add_brand", o, 4, Top.box_tree))
                     /\ leaf' = [leaf EXCEPT !.offset = Add32(o, U32(4))]
                     /\ pc' = "ftyp_loop"
                     /\ UNCHANGED <<stack, fault>>
           ELSE /\ leaf' = [leaf EXCEPT !.ret = Sub32(o, leaf.offset_start)]
                /\ pc' = "box_return"
                /\ UNCHANGED <<stack, fault, reads, tree>>
    /\ UNCHANGED <<tvb, offset, ret, result, col>>

Next ==
    \/ Sniff
    \/ TopLoop
    \/ TopRet
    \/ BoxHeader
    \/ Switch
    \/ BoxLoop
    \/ ChildRet
    \/ BoxReturn
    \/ MvhdBody
    \/ MfhdBody
    \/ FtypFixed
    \/ FtypLoop

Spec == Init /\ [][Next]_vars

\* the one thread of control runs until dissect_mp4 returns or the exception leaves it
FairSpec == Spec /\ WF_vars(Next)

TypeOK ==
    /\ pc \in { "dissect_mp4", "top_loop", "top_ret", "box_entry", "switch",
                "box_loop", "child_ret", "box_return", "mvhd_body", "mfhd_body",
                "ftyp_body", "ftyp_loop", "done", "exception" }
    /\ Len(tvb) <= 8 * MaxBoxes

(***************************************************************************)
(* Properties.                                                             *)
(***************************************************************************)
\* the sum of two words as a number, not reduced modulo 2^32
Sum(a, b) == <<a[1] + b[1] + ((a[2] + b[2]) \div W16), (a[2] + b[2]) % W16>>

\* a <= b for numbers <<hi, lo>>
Leq(a, b) == ~ Lt32(b, a)

Finished == pc \in { "done", "exception" }

AdvancedBy8(a, b) == Lt32(a, b) /\ ~ Lt32(Sub32(b, a), U32(8))

\* C2: termination.  The parse of every buffer eventually finishes, and an
\* iteration of the top-level loop or of the container loop either advances
\* the cursor by at least 8 bytes or leaves the loop with the cursor as it is.
C2_Termination ==
    /\ <>Finished
    /\ [][ /\ pc = "top_ret" =>
                \/ pc' = "top_loop" /\ AdvancedBy8(offset, offset')
                \/ pc' = "done" /\ offset' = offset
           /\ pc = "child_ret" =>
                \/ pc' = "box_loop" /\ AdvancedBy8(Top.offset, Top'.offset)
                \/ pc' = "box_return" /\ Top'.offset = Top.offset ]_vars

\* a parse that returned after two advancing iterations of the top-level
\* loop, with a child box under the first box that advanced a container loop
C2_Witness ==
    /\ pc = "done"
    /\ Leq(U32(24), result)
    /\ \E i \in 1..Len(tree) :
          /\ tree[i].kind = "text"
          /\ tree[i].parent = 2
          /\ ~ GintLeqZero(tree[i].length)
          /\ \E j \in (i + 1)..Len(tree) :
                tree[j].kind = "text" /\ tree[j].parent = 1

\* the end o+s of the box of frame f, as a number
FrameEnd(f) == Sum(f.offset_start, f.box_len)

\* the accesses performed by the step
NewReads == { i \in 1..Len(reads') : i > Len(reads) }

\* C3: extent safety.  While dissect_mp4_box walks the payload of a container
\* at o with declared size s, no access of a child header read or of a leaf
\* decoder inside that walk touches a byte at index >= o+s (so a child header
\* is read only when 8 bytes remain before o+s).
C3_ExtentSafety ==
    [][ \A i \in NewReads : \A j \in 1..(Len(stack) - 1) :
           Leq(U32(reads'[i].at + reads'[i].n), FrameEnd(stack[j])) ]_vars

\* the box nodes of the tree (item 1 is the protocol item)
BoxNodes == { i \in 1..Len(tree) : tree[i].kind = "text" }

\* the box nodes added under a box node
ChildNodes == { i \in BoxNodes : tree[i].parent > 1 }

NodeEnd(n) == Sum(n.start, n.length)

\* C4 as claimed: the reported range [c, c+csize) of every child box lies
\* inside the payload range [o+8, o+s) of its parent.
C4_ChildRangeInsideParent ==
    \A i \in ChildNodes :
        /\ Leq(Sum(tree[tree[i].parent].start, U32(8)), tree[i].start)
        /\ Leq(NodeEnd(tree[i]), NodeEnd(tree[tree[i].parent]))

\* C4 as amended: every child box starts inside the payload range of its
\* parent, o+8 <= c < o+s; its declared end is not checked against o+s.
C4_ChildStartsInsideParent ==
    \A i \in ChildNodes :
        /\ Leq(Sum(tree[tree[i].parent].start, U32(8)), tree[i].start)
        /\ Lt32(tree[i].start, NodeEnd(tree[tree[i].parent]))

\* a child box was reported whose declared range ends after its parent's
C4_Witness ==
    \E i \in ChildNodes : Lt32(NodeEnd(tree[tree[i].parent]), NodeEnd(tree[i]))

\* the box nodes already reported in the scope of the invocation on top
Siblings == { i \in BoxNodes : tree[i].parent = Top.tree }

LastSibling == CHOOSE i \in Siblings : \A k \in Siblings : k <= i

\* C5: declared-size authority.  When a header is read (or its read is
\* refused) in a scope that already holds a box at o of declared size s as
\* the last one, the access is at exactly o+s, whatever the type of that box,
\* what its leaf decoder consumed and what its children declared.
C5_DeclaredSizeAuthority ==
    [][ (pc = "box_entry" /\ Siblings # {}) =>
           /\ Top.offset = NodeEnd(tree[LastSibling])
           /\ \A i \in NewReads : reads'[i].at \in
                 { Top.offset[2], Top.offset[2] + 4 }
           /\ pc' = "exception" => fault'.at \in
                 { Top.offset, Add32(Top.offset, U32(4)) } ]_vars

\* a container of declared size 16 whose only child was rejected, so that no
\* child is reported, and whose next sibling was reported at o+16
C5_Witness ==
    \E i \in BoxNodes : \E j \in BoxNodes :
        /\ tree[i].type \in ContainerTypes
        /\ tree[i].length = U32(16)
        /\ tree[j].parent = tree[i].parent
        /\ j > i
        /\ tree[j].start = NodeEnd(tree[i])
        /\ \A k \in BoxNodes : tree[k].parent # i

\* the header at the cursor of the invocation on top declares a size in 0..7
DeclaresSizeBelow8 ==
    /\ Top.offset[1] = 0
    /\ Top.offset[2] + 4 <= Len(tvb)
    /\ tvb[Top.offset[2] + 1] = 0
    /\ tvb[Top.offset[2] + 2] = 0
    /\ tvb[Top.offset[2] + 3] = 0
    /\ tvb[Top.offset[2] + 4] \in 0..7

\* the cursor of the loop that pc is in: of dissect_mp4, or of the container
LoopCursor == IF stack = <<>> THEN offset ELSE Top.offset

\* C6: minimum size rejection.  When the header at the cursor declares a size
\* in 0..7, the call of dissect_mp4_box fails (returns a negative value) and
\* adds nothing to the tree; the caller then leaves its loop with its cursor
\* unchanged, without reading a later sibling, and the tree is kept.
C6_MinimumSizeRejection ==
    [][ /\ (pc = "box_entry" /\ DeclaresSizeBelow8) =>
              /\ ret'[1] >= 32768
              /\ tree' = tree
              /\ stack' = Pop
              /\ pc' \in { "top_ret", "child_ret" }
        /\ (pc \in { "top_ret", "child_ret" } /\ ret = MinusOne) =>
              /\ pc' \in { "done", "box_return" }
              /\ LoopCursor' = LoopCursor
              /\ reads' = reads
              /\ tree' = tree ]_vars

\* the parse ended at a box that declares a size below 8, after it had
\* reported at least one box: the last read is the read of that size, at the
\* offset that dissect_mp4 returned
C6_Witness ==
    /\ pc = "done"
    /\ BoxNodes # {}
    /\ ret = MinusOne
    /\ reads[Len(reads)].by = "box_len"
    /\ reads[Len(reads)].at = result[2]
    /\ tvb[result[2] + 4] \in 0..7

\* the four characters of the 13 box types of the registry
RegistryTags ==
    { <<102, 116, 121, 112>>, <<109, 102, 104, 100>>, <<109, 118, 104, 100>>,
      <<109, 111, 111, 118>>, <<109, 111, 111, 102>>, <<115, 116, 98, 108>>,
      <<109, 100, 105, 97>>,  <<116, 114, 97, 107>>,  <<116, 114, 97, 102>>,
      <<109, 105, 110, 102>>, <<109, 118, 101, 120>>, <<109, 101, 104, 100>>,
      <<116, 114, 101, 120>> }

Declined ==
    /\ pc = "done"
    /\ result = <<0, 0>>
    /\ tree = <<>>
    /\ col = ""
    /\ stack = <<>>

Accepted ==
    /\ col = "MP4"
    /\ tree # <<>>
    /\ tree[1].kind = "protocol"
    /\ pc # "dissect_mp4"

\* C7: sniff gate.  Once dissect_mp4 is past its checks, it has returned 0
\* with nothing added to the tree and no protocol column if the buffer is
\* shorter than 8 bytes or bytes 4..8 are not one of the 13 registry types,
\* and it has set the column, added the protocol item and started the walk
\* exactly if the length is >= 8 and the type is in the registry.
C7_SniffGate ==
    pc # "dissect_mp4" =>
        IF Len(tvb) >= 8 /\ SubSeq(tvb, 5, 8) \in RegistryTags
        THEN Accepted ELSE Declined

\* a buffer of at least 8 bytes whose first type is not in the registry was
\* declined
C7_Witness == Declined /\ Len(tvb) >= 8 /\ reads # <<>>

\* the end of the declared payload of the box the leaf decoder works on
PayloadEnd == Sum(leaf.offset_start, leaf.len)

\* C8: file-type decoder, trailing remainder.  For a payload length L >= 8 no
\* read of a compatible brand extends past payload_start + L, and the value
\* the decoder returns does not exceed L.
C8_FtypTrailingRemainder ==
    [][ (pc = "ftyp_loop" /\ Leq(U32(8), leaf.len)) =>
           /\ \A i \in NewReads :
                 Leq(U32(reads'[i].at + reads'[i].n), PayloadEnd)
           /\ pc' = "box_return" => Leq(leaf'.ret, leaf.len) ]_vars

\* C9: fixed-field payload check.  The fixed reads of a leaf decoder (the
\* file-type brand and version, the movie-header version byte, the
\* movie-fragment-header version byte and sequence number) are performed only
\* inside the declared payload of the box.
C9_FixedFieldsFit ==
    [][ (pc \in { "ftyp_body", "mvhd_body", "mfhd_body" }) =>
           (\A i \in NewReads :
               Leq(U32(reads'[i].at + reads'[i].n), PayloadEnd)) ]_vars

\* C10: a truncated header is a clean stop.  When dissect_mp4_box is entered
\* with 1..7 bytes left in the buffer, it reads nothing, raises nothing, adds
\* nothing to the tree and returns a failure to its caller.
C10_TruncatedHeaderCleanStop ==
    [][ ( /\ pc = "box_entry"
          /\ Top.offset[1] = 0
          /\ Len(tvb) - Top.offset[2] \in 1..7 ) =>
           /\ reads' = reads
           /\ pc' # "exception"
           /\ tree' = tree
           /\ stack' = Pop
           /\ GintLeqZero(ret') ]_vars

\* the sum of the declared sizes of the top-level boxes among the first k
\* items of the tree, as a number
RECURSIVE TopLevelSum(_)
TopLevelSum(k) ==
    IF k = 0 THEN <<0, 0>>
    ELSE IF tree[k].kind = "text" /\ tree[k].parent = 1
         THEN Sum(TopLevelSum(k - 1), tree[k].length)
         ELSE TopLevelSum(k - 1)

\* C11: top-level result.  When dissect_mp4 returns on an accepted buffer, the
\* value it returns is the sum of the declared sizes of the top-level boxes
\* whose headers were read with a size >= 8, from offset 0 up to the first
\* header that was not.
C11_TopLevelResult ==
    (pc = "done" /\ Accepted) => result = TopLevelSum(Len(tree))

\* C12: full unsigned size range.  A call of dissect_mp4_box that got past the
\* header returns the declared size s to its caller, and for every s >= 8,
\* also with the top bit set, the caller goes on with its loop with the cursor
\* advanced by s.  (A result of -1 is the rejection of line 173.)
C12_FullUnsignedSizeRange ==
    [][ /\ pc = "box_return" => ret' = Top.box_len
        /\ ( /\ pc \in { "top_ret", "child_ret" }
             /\ ret # MinusOne
             /\ Leq(U32(8), ret) ) =>
              /\ pc' \in { "top_loop", "box_loop" }
              /\ LoopCursor' = Add32(LoopCursor, ret) ]_vars

\* node a of the tree is node m or one of the nodes above it
RECURSIVE Above(_, _)
Above(a, m) ==
    IF m = a THEN TRUE
    ELSE IF m <= 1 THEN FALSE
    ELSE Above(a, tree[m].parent)

\* the tree is in pre-order: every node comes after its parent, and every
\* node between a parent and one of its children belongs to the parent's
\* subtree (so a subtree is complete before the next sibling is added)
PreOrder ==
    \A k \in 2..Len(tree) :
        /\ tree[k].parent \in 1..(k - 1)
        /\ \A m \in (tree[k].parent + 1)..(k - 1) : Above(tree[k].parent, m)

\* the boxes of one scope are added at strictly increasing offsets
SiblingsAscend ==
    \A i, k \in BoxNodes :
        (i < k /\ tree[i].parent = tree[k].parent) =>
            Lt32(tree[i].start, tree[k].start)

\* a step only adds items at the end of the tree
AppendOnly ==
    /\ Len(tree') >= Len(tree)
    /\ \A i \in 1..Len(tree) : tree'[i] = tree[i]

\* C13: pre-order reporting.  The box nodes of one parse are added to the tree
\* in strict pre-order: a container's node before the nodes of its children,
\* the whole subtree of a box before its next sibling, the siblings of one
\* scope at strictly increasing offsets; and the tree is only appended to.
C13_PreOrderReporting ==
    /\ [](PreOrder /\ SiblingsAscend)
    /\ [][AppendOnly]_vars

\* a container with a child box and a grandchild, followed by a sibling of
\* the container, after the parse has returned
C13_Witness ==
    /\ pc = "done"
    /\ \E i, j, k, n \in BoxNodes :
          /\ i < j /\ j < k /\ k < n
          /\ tree[j].parent = i
          /\ tree[k].parent = j
          /\ tree[n].parent = tree[i].parent

\* box node p has a child box whose declared size reaches past the end o+s
\* of p
HasOversizedChild(p) ==
    \E k \in BoxNodes :
        /\ tree[k].parent = p
        /\ ~ Leq(NodeEnd(tree[k]), NodeEnd(tree[p]))

\* C15: oversized child stops the scope.  While a call of dissect_mp4_box for
\* a container is active and a child header has been read in it with a
\* declared size that exceeds the bytes left before the container's end o+s:
\* no exception is raised, no further child is added under the container, the
\* container's loop, when tested again, is left, and the container's call
\* returns exactly s.
C15_OversizedChildStopsScope ==
    [][ \A j \in 1..Len(stack) :
          (stack[j].box_tree > 0 /\ HasOversizedChild(stack[j].box_tree)) =>
            /\ pc' # "exception"
            /\ \A k \in 1..Len(tree') :
                  (tree'[k].kind = "text" /\ tree'[k].parent = stack[j].box_tree)
                      => k <= Len(tree)
            /\ (j = Len(stack) /\ pc = "box_loop") => pc' = "box_return"
            /\ (j = Len(stack) /\ pc = "box_return") => ret' = stack[j].box_len
      ]_vars

\* the types the claim names as containers and as leaves
RecursedTypes ==
    { BOX_TYPE_MOOV, BOX_TYPE_MOOF, BOX_TYPE_STBL, BOX_TYPE_MDIA,
      BOX_TYPE_TRAK, BOX_TYPE_TRAF, BOX_TYPE_MINF, BOX_TYPE_MVEX }

LeafTypes == { BOX_TYPE_FTYP, BOX_TYPE_MVHD, BOX_TYPE_MFHD }

Opaque(t) == t \notin RecursedTypes \cup LeafTypes

\* the tree item under which the boxes of the current loop are added, and
\* the last box added there
ScopeParent == IF stack = <<>> THEN 1 ELSE Top.box_tree

LastInScope ==
    CHOOSE i \in BoxNodes :
        /\ tree[i].parent = ScopeParent
        /\ \A k \in BoxNodes : tree[k].parent = ScopeParent => k <= i

\* C16: dispatch classification.  After the header of a box, the container
\* loop is entered exactly for the 8 container types, a leaf decoder is called
\* exactly for ftyp, mvhd and mfhd (each its own), and for every other type
\* (mehd, trex, unknown ones) nothing is read after the header and the
\* caller's cursor moves on by the declared size.
C16_DispatchClassification ==
    [][ /\ pc = "switch" =>
              /\ pc' = "box_loop" <=> Top.box_type \in RecursedTypes
              /\ pc' \in { "ftyp_body", "mvhd_body", "mfhd_body" }
                    <=> Top.box_type \in LeafTypes
              /\ pc' = "ftyp_body" <=> Top.box_type = BOX_TYPE_FTYP
              /\ pc' = "mvhd_body" <=> Top.box_type = BOX_TYPE_MVHD
              /\ pc' = "mfhd_body" <=> Top.box_type = BOX_TYPE_MFHD
              /\ Opaque(Top.box_type) => (pc' = "box_return" /\ reads' = reads)
        /\ (pc = "box_return" /\ Opaque(Top.box_type)) =>
              /\ reads' = reads
              /\ ret' = Top.box_len
        /\ ( /\ pc \in { "top_ret", "child_ret" }
             /\ ret # MinusOne
             /\ Opaque(tree[LastInScope].type) ) =>
              /\ pc' \in { "top_loop", "box_loop" }
              /\ reads' = reads
              /\ LoopCursor' = Add32(tree[LastInScope].start,
                                     tree[LastInScope].length) ]_vars

\* C17: the value returned by dissect_mp4 never exceeds the length of the
\* buffer, also when the last top-level box declares a size larger than the
\* bytes that remain.
C17_ResultWithinBuffer ==
    pc = "done" => Leq(result, U32(Len(tvb)))

\* the active invocations of dissect_mp4_box that have read their header
HeaderRead == { j \in 1..Len(stack) : stack[j].box_tree > 0 }

\* C18 as claimed: at every point of the parse the number of nested active
\* invocations of dissect_mp4_box is at most floor(buffer length / 8).
C18_DepthWithinLengthOver8 ==
    Len(stack) <= Len(tvb) \div 8

\* C18, amended: the number of nested active invocations is at most
\* floor(buffer length / 8) + 1, and at most floor(buffer length / 8) of them
\* have read their header; every nested invocation starts at least 8 bytes
\* after the start of the invocation that called it.
C18_DepthBoundedByInput ==
    /\ Len(stack) <= Len(tvb) \div 8 + 1
    /\ Cardinality(HeaderRead) <= Len(tvb) \div 8
    /\ \A j \in 2..Len(stack) :
          Leq(Sum(stack[j - 1].offset_start, U32(8)), stack[j].offset_start)

\* a nested invocation entered where the buffer has ended: the depth is
\* floor(buffer length / 8) + 1
C18_Witness ==
    /\ pc = "box_entry"
    /\ Len(stack) >= 2
    /\ Len(stack) = Len(tvb) \div 8 + 1

====
